---- MODULE Spec2Model ----
(***************************************************************************)
(* amvc: the Model / View / Controller base classes and the todo example   *)
(* built on them (ToDoListModel, ToDoListView, ToDoView,                   *)
(* ToDoListController), as a state machine.                                *)
(*                                                                         *)
(* JavaScript runs every callback to completion: while a callback of the   *)
(* controller is on the stack (pc.prog is not empty) no other action is    *)
(* enabled.  A fetch is a promise: its value is fixed by                   *)
(* ToDoListModel.fetchData when it is called (a reference to the array     *)
(* this.todos names at that moment), its then-callback runs at some later  *)
(* moment the Model interface does not fix.                                *)
(*                                                                         *)
(* log is the history of the calls made so far; the properties are stated  *)
(* over it.                                                                *)
(***************************************************************************)
EXTENDS Integers, Sequences, FiniteSets, TLC

VARIABLES
  lastId,         \* ToDoListModel.lastId
  todos,          \* ToDoListModel.todos: a reference into heap
  heap,           \* the ToDoItem[] arrays allocated so far, by reference
  eventHandlers,  \* BaseView.eventHandlers of the ToDoListView
  itemHandlers,   \* BaseView.eventHandlers of the child ToDoView
  constructed,    \* the ToDoListController has been constructed
  ctrlRender,     \* BaseController.render: 0 is the default () => {}
  pending,        \* fetchData promises whose then-callback has not run
  nodes,          \* the UI nodes view.render has returned, in order
  pc,             \* the controller callback on the stack, if any
  nEv,            \* user interactions fired so far
  log             \* history of calls

vars == <<lastId, todos, heap, eventHandlers, itemHandlers, constructed,
          ctrlRender, pending, nodes, pc, nEv, log>>

\* ---------------------------------------------------------------- bounds
MaxEvents == 3        \* user interactions fired
MaxSinks == 2         \* onUpdate registrations
MaxRuns == 1          \* run() calls
MaxHostEvents == 2    \* user interactions fired, when the host drives the parts itself
MaxHostOnEvent == 1   \* onEvent calls made by the host itself
MaxHostHandle == 1    \* model.handle calls made by the host itself
MaxHostRender == 1    \* view.render calls made by the host itself
MaxRunCalls == 2      \* run() calls, when run() is called again
MaxWideEvents == 2    \* user interactions fired, when run() is called again or a call fails
MaxModelOps == 4      \* handle calls made on a model used on its own
MaxModelFetch == 2    \* fetchData calls made on a model used on its own
MaxAppEvents == 4     \* user interactions fired, when the fetches are ToDoListModel's

Names == {"a", "b"}
Undefined == "undefined"
TypeError == "TypeError"
emptyFunction == "emptyFunction"
\* The callback the host registers with its k-th onEvent call.
HostCallback(k) == "hostCb" \o ToString(k)

\* ------------------------------------------------------------ JavaScript
\* An object literal inherits from Object.prototype: obj[key] finds the
\* inherited members too.
ObjectPrototype ==
  [toString |-> "Object.prototype.toString",
   valueOf  |-> "Object.prototype.valueOf"]

GetProp(obj, key) ==
  IF key \in DOMAIN obj THEN obj[key]
  ELSE IF key \in DOMAIN ObjectPrototype THEN ObjectPrototype[key]
  ELSE Undefined

\* --------------------------------------------------------- ToDoListModel
ToDoItem(id, name) ==
  [id |-> id, name |-> name, description |-> "Default", completed |-> FALSE]

\* this.todos.filter((todo) => todo.id !== id): a new array
FilterOutId(s, id) ==
  LET F[i \in 0..Len(s)] ==
        IF i = 0 THEN << >>
        ELSE IF s[i].id # id THEN Append(F[i - 1], s[i]) ELSE F[i - 1]
  IN F[Len(s)]

\* The model's private state as one value: m.lastId, m.todos, m.heap.
ModelState == [lastId |-> lastId, todos |-> todos, heap |-> heap]

\* add that numbers the new item by the length of the list
add_IdFromLength(m, name) ==
  [m EXCEPT !.heap = [@ EXCEPT ![m.todos] =
                        Append(@, ToDoItem(Len(m.heap[m.todos]), name))],
            !.lastId = @ + 1]

\* this.todos.push({id: this.lastId++, name, ...}): in place
add(m, name) ==
  [m EXCEPT !.heap = [@ EXCEPT ![m.todos] = Append(@, ToDoItem(m.lastId, name))],
            !.lastId = @ + 1]

\* remove by position, todos.splice(todos.findIndex(...), 1): an id that is
\* not found gives position -1, which removes the last item
remove_SpliceMiss(m, id) ==
  LET list == m.heap[m.todos]
      kept == IF \E i \in DOMAIN list : list[i].id = id
              THEN FilterOutId(list, id)
              ELSE SubSeq(list, 1, Len(list) - 1)
  IN [m EXCEPT !.heap = Append(@, kept), !.todos = Len(m.heap) + 1]

remove(m, id) ==
  LET kept == FilterOutId(m.heap[m.todos], id)
  IN [m EXCEPT !.heap = Append(@, kept), !.todos = Len(m.heap) + 1]

\* clear that also starts the ids again from 0
clear_ResetsCounter(m) ==
  [m EXCEPT !.heap = Append(@, << >>), !.todos = Len(m.heap) + 1, !.lastId = 0]

\* this.todos = []: a new array
clear(m) ==
  [m EXCEPT !.heap = Append(@, << >>), !.todos = Len(m.heap) + 1]

\* The table passed to super(...): each entry forwards to a private method.
handlers == [add |-> "add", remove |-> "remove", clear |-> "clear"]

\* Calling the function value fn with params: the state after, the value the
\* call returns, and the handler invocations made (each with the value the
\* handler returned; the todo handlers return nothing).
Invocation(fn, params, returned) ==
  [fn |-> fn, params |-> params, returned |-> returned]

\* Call where the add handler also renders the view after pushing the item
Call_AddRenders(fn, params, m) ==
  CASE fn = "add" ->
         [m |-> add(m, params[1]), result |-> Undefined,
          calls |-> <<Invocation(fn, params, Undefined),
                      Invocation("view.render", <<m.todos>>, Undefined)>>]
    [] fn = "remove" ->
         [m |-> remove(m, params[1]), result |-> Undefined,
          calls |-> <<Invocation(fn, params, Undefined)>>]
    [] fn = "clear" ->
         [m |-> clear(m), result |-> Undefined,
          calls |-> <<Invocation(fn, params, Undefined)>>]
    [] fn = "Object.prototype.toString" ->
         [m |-> m, result |-> "[object Object]", calls |-> << >>]
    [] fn = "Object.prototype.valueOf" ->
         [m |-> m, result |-> "[handlers]", calls |-> << >>]

Call(fn, params, m) ==
  CASE fn = "add" ->
         [m |-> add(m, params[1]), result |-> Undefined,
          calls |-> <<Invocation(fn, params, Undefined)>>]
    [] fn = "remove" ->
         [m |-> remove(m, params[1]), result |-> Undefined,
          calls |-> <<Invocation(fn, params, Undefined)>>]
    [] fn = "clear" ->
         [m |-> clear(m), result |-> Undefined,
          calls |-> <<Invocation(fn, params, Undefined)>>]
    [] fn = "Object.prototype.toString" ->
         [m |-> m, result |-> "[object Object]", calls |-> << >>]
    [] fn = "Object.prototype.valueOf" ->
         [m |-> m, result |-> "[handlers]", calls |-> << >>]

\* handle with a guard that returns early when no parameters are given
handle_SkipsNoParams(m, event, params) ==
  LET f == GetProp(handlers, event)
  IN IF f = Undefined
     THEN [m |-> m, threw |-> TRUE, result |-> TypeError, calls |-> << >>]
     ELSE IF params = << >>
     THEN [m |-> m, threw |-> FALSE, result |-> Undefined, calls |-> << >>]
     ELSE LET r == Call(f, params, m)
          IN [m |-> r.m, threw |-> FALSE, result |-> r.result, calls |-> r.calls]

\* BaseModel.handle: return this.handlers[event](...params)
handle(m, event, params) ==
  LET f == GetProp(handlers, event)
  IN IF f = Undefined
     THEN [m |-> m, threw |-> TRUE, result |-> TypeError, calls |-> << >>]
     ELSE LET r == Call(f, params, m)
          IN [m |-> r.m, threw |-> FALSE, result |-> r.result, calls |-> r.calls]

\* ToDoListModel.fetchData: async, return this.todos (the reference)
fetchData(m) == m.todos

\* -------------------------------------------------------------- BaseView
\* getHandler without the "?? emptyFunction"
getHandler_NoDefault(table, event) == GetProp(table, event)

getHandler(table, event) ==
  LET h == GetProp(table, event)
  IN IF h = Undefined THEN emptyFunction ELSE h

\* onEvent that replaces the whole table, this.eventHandlers = {[event]: callback}
onEvent_Resets(table, event, callback) == (event :> callback)

\* onEvent that keeps a callback already registered for the event
onEvent_KeepsFirst(table, event, callback) == table @@ (event :> callback)

\* this.eventHandlers[event] = callback
onEvent(table, event, callback) == (event :> callback) @@ table

\* A listener render attaches to a node is a closure over the view: it looks
\* the callback up when it fires, () => this.getHandler(event)(...).
\* The listener that saves the handler when the node is rendered:
\* addEventListener(..., this.getHandler(event))
Listener_Captured(table, event) ==
  [event |-> event, lookup |-> FALSE, cb |-> getHandler(table, event)]

Listener(table, event) == [event |-> event, lookup |-> TRUE, cb |-> Undefined]

\* The callback a listener calls when it fires, table being the view's
\* eventHandlers at that moment.
Fire(listener, table) ==
  IF listener.lookup THEN getHandler(table, listener.event) ELSE listener.cb

\* ToDoView.render: title, description and a Remove button with a click
\* listener, () => this.getHandler('remove')(data.id)
\* ItemRender whose click listener passes an id counted from 1
ItemRender_IdsFromOne(item, table) ==
  [title |-> item.name, description |-> item.description, removeId |-> item.id + 1,
   click |-> Listener(table, "remove")]

ItemRender(item, table) ==
  [title |-> item.name, description |-> item.description, removeId |-> item.id,
   click |-> Listener(table, "remove")]

\* ToDoListView.render: a form with a submit listener,
\* this.getHandler('add')(input.value), and one item node per entry of data,
\* in order, rendered by the child view.
\* ListRender that attaches the callback registered for 'add' at render time
\* as the submit listener
ListRender_ReadsTable(data, table, itemTable) ==
  [submit |-> [event |-> "add", lookup |-> FALSE, cb |-> getHandler(table, "add")],
   list |-> [i \in 1..Len(data) |-> ItemRender(data[i], itemTable)]]

ListRender(data, table, itemTable) ==
  [submit |-> Listener(table, "add"),
   list |-> [i \in 1..Len(data) |-> ItemRender(data[i], itemTable)]]

\* ... and the last statement of ToDoListView.render:
\* this.toDoItemView.onEvent('remove', (id) => this.getHandler('remove')(id))
ListRenderWiring(table) == onEvent(table, "remove", "delegateRemove")

\* -------------------------------------------------------- BaseController
\* onUpdate(callback): this.render = callback.  The value of this.render
\* after the call, and the sink calls made during it (none); node is the node
\* rendered last, 0 when there is none.
SinkCall(sink, node) == [sink |-> sink, node |-> node]

\* onUpdate that hands the node rendered last to the new sink
onUpdate_Replays(current, callback, node) ==
  [render |-> callback,
   calls |-> IF node = 0 THEN << >> ELSE <<SinkCall(callback, node)>>]

onUpdate(current, callback, node) ==
  [render |-> callback, calls |-> << >>]

\* ---------------------------------------------------- ToDoListController
\* A callback of the controller: the statements it runs when it is called
\* (sync), and those of the function it passes to fetchData().then (then).
Stmt(op, event) == [op |-> op, event |-> event]
Callback(sync, then) == [sync |-> sync, then |-> then]

\* handleAdd that calls fetchData().then(...) before model.handle
handleAdd_FetchFirst ==
  Callback(<<Stmt("fetch", ""), Stmt("handle", "add")>>,
           <<Stmt("render", ""), Stmt("push", "")>>)

\* handleAdd that applies the mutation in the then-callback
handleAdd_HandleInThen ==
  Callback(<<Stmt("fetch", "")>>,
           <<Stmt("handle", "add"), Stmt("render", ""), Stmt("push", "")>>)

\* handleAdd whose then-callback renders and drops the node
handleAdd_NoPush ==
  Callback(<<Stmt("handle", "add"), Stmt("fetch", "")>>,
           <<Stmt("render", "")>>)

\* handleAdd(name):
\*   this.model.handle('add', name);
\*   this.model.fetchData().then((data) => this.render(this.view.render(data)));
handleAdd ==
  Callback(<<Stmt("handle", "add"), Stmt("fetch", "")>>,
           <<Stmt("render", ""), Stmt("push", "")>>)

\* handleRemove that calls fetchData().then(...) before model.handle
handleRemove_FetchFirst ==
  Callback(<<Stmt("fetch", ""), Stmt("handle", "remove")>>,
           <<Stmt("render", ""), Stmt("push", "")>>)

\* handleRemove whose then-callback renders and pushes twice
handleRemove_RendersTwice ==
  Callback(<<Stmt("handle", "remove"), Stmt("fetch", "")>>,
           <<Stmt("render", ""), Stmt("push", ""), Stmt("render", ""), Stmt("push", "")>>)

\* handleRemove(id):
\*   this.model.handle('remove', id);
\*   this.model.fetchData().then((data) => this.render(this.view.render(data)));
handleRemove ==
  Callback(<<Stmt("handle", "remove"), Stmt("fetch", "")>>,
           <<Stmt("render", ""), Stmt("push", "")>>)

\* run that renders what the model holds
run_RendersFetched ==
  Callback(<<Stmt("fetch", "")>>, <<Stmt("render", ""), Stmt("push", "")>>)

\* run that empties the model before the default render
run_ClearsFirst ==
  Callback(<<Stmt("handle", "clear"), Stmt("render", ""), Stmt("push", "")>>, << >>)

\* run(): this.render(this.view.render([]))
run == Callback(<<Stmt("render", ""), Stmt("push", "")>>, << >>)

\* The sink a push of the callback p goes to, with this.render saved when the
\* then-callback was registered
PushTarget_Captured(p) == p.sink

\* The sink a push of the callback p goes to: this.render, read when the push
\* happens.
PushTarget(p) == ctrlRender

\* -------------------------------------------------------------- the state
\* prog: the statements still to run; then: the then-callback of the callback
\* on the stack; arg: its argument; data: the array reference a then-callback
\* was given; node: the node it rendered; sink: this.render when the
\* then-callback was registered (run() runs now, so now).
IdlePc == [prog |-> << >>, then |-> << >>, kind |-> "", ev |-> 0, arg |-> 0,
           data |-> 0, node |-> 0, sink |-> 0]
Idle == pc.prog = << >>

Advance(p) == IF Len(p.prog) = 1 THEN IdlePc ELSE [p EXCEPT !.prog = Tail(@)]

\* The array a data reference names now; 0 is the literal [] of run().
Data(ref) == IF ref = 0 THEN << >> ELSE heap[ref]

Entry(op, ev, key, arg, val) ==
  [op |-> op, ev |-> ev, key |-> key, arg |-> arg, val |-> val]

\* ev of an entry: the interaction it belongs to, 0 for run(), the
\* constructor and onUpdate, -1 for a call the host makes itself.  A fetch
\* entry holds the reference fetchData returned (val) and what the array
\* held at the call (arg); a resolve entry the reference and what the array
\* holds when the then-callback receives it.
Idx(op) == {i \in DOMAIN log : log[i].op = op}
HostIdx(op) == {i \in Idx(op) : log[i].ev = -1}
HostRegs == {i \in Idx("onEvent") : log[i].arg = "host"}

Init ==
  /\ lastId = 0
  /\ heap = << << >> >>
  /\ todos = 1
  /\ eventHandlers = << >>
  /\ itemHandlers = << >>
  /\ constructed = FALSE
  /\ ctrlRender = 0
  /\ pending = {}
  /\ nodes = << >>
  /\ pc = IdlePc
  /\ nEv = 0
  /\ log = << >>

SetModel(m) ==
  /\ lastId' = m.lastId
  /\ todos' = m.todos
  /\ heap' = m.heap

\* new ToDoListController(model, view)
Construct ==
  /\ Idle
  /\ ~constructed
  /\ constructed' = TRUE
  /\ eventHandlers' =
       onEvent(onEvent(eventHandlers, "add", "handleAdd"), "remove", "handleRemove")
  /\ log' = log \o <<Entry("onEvent", 0, "list.add", "constructor", "handleAdd"),
                     Entry("onEvent", 0, "list.remove", "constructor", "handleRemove")>>
  /\ UNCHANGED <<lastId, todos, heap, itemHandlers, ctrlRender, pending, nodes, pc, nEv>>

\* controller.onUpdate(sink): the k-th registration registers sink k
OnUpdate ==
  /\ Idle
  /\ constructed
  /\ Cardinality(Idx("onUpdate")) < MaxSinks
  /\ LET k == Cardinality(Idx("onUpdate")) + 1
         r == onUpdate(ctrlRender, k, Len(nodes))
     IN /\ ctrlRender' = r.render
        /\ log' = log \o <<Entry("onUpdate", 0, "", 0, k)>>
                       \o [i \in 1..Len(r.calls) |->
                             Entry("push", 0, "onUpdate", r.calls[i].sink, r.calls[i].node)]
  /\ UNCHANGED <<lastId, todos, heap, eventHandlers, itemHandlers, constructed,
                 pending, nodes, pc, nEv>>

\* controller.run() is called
Run(maxRuns) ==
  /\ Idle
  /\ constructed
  /\ Cardinality(Idx("run")) < maxRuns
  /\ pc' = [IdlePc EXCEPT !.prog = run.sync, !.then = run.then, !.kind = "run",
                          !.sink = ctrlRender]
  /\ log' = Append(log, Entry("run", 0, "", 0, 0))
  /\ UNCHANGED <<lastId, todos, heap, eventHandlers, itemHandlers, constructed,
                 ctrlRender, pending, nodes, nEv>>

\* this.model.handle(event, arg) inside handleAdd / handleRemove
DoHandle ==
  /\ ~Idle
  /\ Head(pc.prog).op = "handle"
  /\ LET r == handle(ModelState, Head(pc.prog).event, <<pc.arg>>)
     IN /\ SetModel(r.m)
        /\ log' = Append(log, Entry("handle", pc.ev, Head(pc.prog).event, <<pc.arg>>,
                                    [threw |-> r.threw, result |-> r.result, calls |-> r.calls]))
        /\ pc' = IF r.threw THEN IdlePc ELSE Advance(pc)
  /\ UNCHANGED <<eventHandlers, itemHandlers, constructed, ctrlRender, pending, nodes, nEv>>

\* this.model.fetchData().then(...): the promise and its then-callback
DoFetch ==
  /\ ~Idle
  /\ Head(pc.prog).op = "fetch"
  /\ pending' = pending \cup {[ev |-> pc.ev, ref |-> fetchData(ModelState),
                                then |-> pc.then, kind |-> pc.kind, arg |-> pc.arg,
                                sink |-> ctrlRender]}
  /\ log' = Append(log, Entry("fetch", pc.ev, "", Data(fetchData(ModelState)),
                              fetchData(ModelState)))
  /\ pc' = Advance(pc)
  /\ UNCHANGED <<lastId, todos, heap, eventHandlers, itemHandlers, constructed,
                 ctrlRender, nodes, nEv>>

\* this.view.render(data)
DoRender ==
  /\ ~Idle
  /\ Head(pc.prog).op = "render"
  /\ nodes' = Append(nodes, ListRender(Data(pc.data), eventHandlers, itemHandlers))
  /\ itemHandlers' = ListRenderWiring(itemHandlers)
  /\ log' = log \o <<Entry("render", pc.ev, pc.kind, Data(pc.data), Len(nodes) + 1),
                     Entry("onEvent", pc.ev, "item.remove", "render", "delegateRemove")>>
  /\ pc' = Advance([pc EXCEPT !.node = Len(nodes) + 1])
  /\ UNCHANGED <<lastId, todos, heap, eventHandlers, constructed, ctrlRender, pending, nEv>>

\* A failing view.render whose fault is caught, the push going ahead
RenderFails_Caught ==
  /\ ~Idle
  /\ Head(pc.prog).op = "render"
  /\ log' = Append(log, Entry("throw", pc.ev, pc.kind, "render", "RenderError"))
  /\ pc' = Advance(pc)
  /\ UNCHANGED <<lastId, todos, heap, eventHandlers, itemHandlers, constructed,
                 ctrlRender, pending, nodes, nEv>>

\* this.view.render(data) throws: the controller is written against the View
\* interface, whose render may fail.  Nothing on the stack catches, so the
\* callback ends there; in a then-callback the promise then() returned is
\* rejected with nothing handling it.
RenderFails ==
  /\ ~Idle
  /\ Head(pc.prog).op = "render"
  /\ log' = Append(log, Entry("throw", pc.ev, pc.kind, "render", "RenderError"))
  /\ pc' = IdlePc
  /\ UNCHANGED <<lastId, todos, heap, eventHandlers, itemHandlers, constructed,
                 ctrlRender, pending, nodes, nEv>>

\* this.render(node)
DoPush ==
  /\ ~Idle
  /\ Head(pc.prog).op = "push"
  /\ log' = Append(log, Entry("push", pc.ev, pc.kind, PushTarget(pc), pc.node))
  /\ pc' = Advance(pc)
  /\ UNCHANGED <<lastId, todos, heap, eventHandlers, itemHandlers, constructed,
                 ctrlRender, pending, nodes, nEv>>

\* The promise of a fetch is fulfilled and its then-callback starts.
Resolve ==
  /\ Idle
  /\ \E p \in pending :
       /\ pending' = pending \ {p}
       /\ pc' = [IdlePc EXCEPT !.prog = p.then, !.kind = p.kind, !.ev = p.ev,
                               !.arg = p.arg, !.data = p.ref, !.sink = p.sink]
       /\ log' = Append(log, Entry("resolve", p.ev, "", Data(p.ref), p.ref))
  /\ UNCHANGED <<lastId, todos, heap, eventHandlers, itemHandlers, constructed,
                 ctrlRender, nodes, nEv>>

\* Fetches delivered in any order, as by a model whose fetchData takes a
\* time of its own
ResolveInOrder_AnyOrder ==
  /\ Idle
  /\ \E p \in pending :
       /\ pending' = pending \ {p}
       /\ pc' = [IdlePc EXCEPT !.prog = p.then, !.kind = p.kind, !.ev = p.ev,
                               !.arg = p.arg, !.data = p.ref, !.sink = p.sink]
       /\ log' = Append(log, Entry("resolve", p.ev, "", Data(p.ref), p.ref))
  /\ UNCHANGED <<lastId, todos, heap, eventHandlers, itemHandlers, constructed,
                 ctrlRender, nodes, nEv>>

\* The fetches of ToDoListModel: fetchData is an async function that returns
\* a value, so its promise is fulfilled when the call returns and the
\* then-callbacks run in the order of the fetchData calls.
ResolveInOrder ==
  /\ Idle
  /\ \E p \in pending :
       /\ \A q \in pending : p.ev <= q.ev
       /\ pending' = pending \ {p}
       /\ pc' = [IdlePc EXCEPT !.prog = p.then, !.kind = p.kind, !.ev = p.ev,
                               !.arg = p.arg, !.data = p.ref, !.sink = p.sink]
       /\ log' = Append(log, Entry("resolve", p.ev, "", Data(p.ref), p.ref))
  /\ UNCHANGED <<lastId, todos, heap, eventHandlers, itemHandlers, constructed,
                 ctrlRender, nodes, nEv>>

\* A rejection that is caught and answered by rendering the empty list
Reject_RendersEmpty ==
  /\ Idle
  /\ \E p \in pending :
       /\ pending' = pending \ {p}
       /\ pc' = [IdlePc EXCEPT !.prog = p.then, !.kind = p.kind, !.ev = p.ev,
                               !.arg = p.arg, !.data = 0, !.sink = p.sink]
       /\ log' = Append(log, Entry("reject", p.ev, "", 0, "caught"))
  /\ UNCHANGED <<lastId, todos, heap, eventHandlers, itemHandlers, constructed,
                 ctrlRender, nodes, nEv>>

\* The promise of a fetch is rejected: .then(cb) has no rejection handler.
Reject ==
  /\ Idle
  /\ \E p \in pending :
       /\ pending' = pending \ {p}
       /\ log' = Append(log, Entry("reject", p.ev, "", 0, "unhandledrejection"))
  /\ UNCHANGED <<lastId, todos, heap, eventHandlers, itemHandlers, constructed,
                 ctrlRender, nodes, pc, nEv>>

\* What calling the callback cb does: the controller's handlers start their
\* body, the empty function and the host's callbacks do nothing here, and
\* calling something that is no function throws.
Invoke(cb, ev, arg) ==
  CASE cb = "handleAdd" ->
         [IdlePc EXCEPT !.prog = handleAdd.sync, !.then = handleAdd.then,
                        !.kind = cb, !.ev = ev, !.arg = arg]
    [] cb = "handleRemove" ->
         [IdlePc EXCEPT !.prog = handleRemove.sync, !.then = handleRemove.then,
                        !.kind = cb, !.ev = ev, !.arg = arg]
    [] OTHER -> IdlePc

Thrown(cb, ev, key, arg) ==
  IF cb = Undefined THEN <<Entry("throw", ev, key, arg, TypeError)>> ELSE << >>

\* The form of a rendered list node is submitted with input.value = name.
SubmitAdd(maxEv) ==
  /\ Idle
  /\ nEv < maxEv
  /\ \E n \in DOMAIN nodes, name \in Names :
       LET cb == Fire(nodes[n].submit, eventHandlers)
       IN /\ log' = log \o <<Entry("dispatch", nEv + 1, "list.add", name, cb)>>
                        \o Thrown(cb, nEv + 1, "list.add", name)
          /\ pc' = Invoke(cb, nEv + 1, name)
  /\ nEv' = nEv + 1
  /\ UNCHANGED <<lastId, todos, heap, eventHandlers, itemHandlers, constructed,
                 ctrlRender, pending, nodes>>

\* The Remove button of an item node of a rendered list node is clicked.  The
\* child view's callback, once the list view has installed it, is
\* (id) => this.getHandler('remove')(id) of the list view.
ClickRemove(maxEv) ==
  /\ Idle
  /\ nEv < maxEv
  /\ \E n \in DOMAIN nodes :
       \E i \in DOMAIN nodes[n].list :
         LET id  == nodes[n].list[i].removeId
             cb1 == Fire(nodes[n].list[i].click, itemHandlers)
             cb2 == getHandler(eventHandlers, "remove")
             cb  == IF cb1 = "delegateRemove" THEN cb2 ELSE cb1
         IN /\ log' = log \o <<Entry("dispatch", nEv + 1, "item.remove", id, cb1)>>
                          \o (IF cb1 = "delegateRemove"
                              THEN <<Entry("dispatch", nEv + 1, "list.remove", id, cb2)>>
                              ELSE << >>)
                          \o Thrown(cb, nEv + 1, "list.remove", id)
            /\ pc' = Invoke(cb, nEv + 1, id)
  /\ nEv' = nEv + 1
  /\ UNCHANGED <<lastId, todos, heap, eventHandlers, itemHandlers, constructed,
                 ctrlRender, pending, nodes>>

\* The host registers a callback of its own on the list view.
HostOnEvent ==
  /\ Idle
  /\ Cardinality(HostRegs) < MaxHostOnEvent
  /\ \E event \in {"add", "remove"} :
       LET cb == HostCallback(Cardinality(HostRegs) + 1)
       IN /\ eventHandlers' = onEvent(eventHandlers, event, cb)
          /\ log' = Append(log, Entry("onEvent", -1, "list." \o event, "host", cb))
  /\ UNCHANGED <<lastId, todos, heap, itemHandlers, constructed, ctrlRender,
                 pending, nodes, pc, nEv>>

\* The event names and parameters the host calls model.handle with.
HostHandleInputs ==
  {<<"add", <<"a">> >>, <<"remove", <<0>> >>, <<"clear", << >> >>,
   <<"toString", << >> >>, <<"bogus", << >> >>}

\* The event names and parameters handle is called with on a model used on
\* its own.
ModelHandleInputs ==
  {<<"add", <<"a">> >>, <<"add", <<"b">> >>, <<"remove", <<0>> >>,
   <<"remove", <<1>> >>, <<"clear", << >> >>}

\* The host calls model.handle itself.
HostHandle(maxCalls, inputs) ==
  /\ Idle
  /\ Cardinality(HostIdx("handle")) < maxCalls
  /\ \E inp \in inputs :
       LET r == handle(ModelState, inp[1], inp[2])
       IN /\ SetModel(r.m)
          /\ log' = Append(log, Entry("handle", -1, inp[1], inp[2],
                                      [threw |-> r.threw, result |-> r.result, calls |-> r.calls]))
  /\ UNCHANGED <<eventHandlers, itemHandlers, constructed, ctrlRender, pending,
                 nodes, pc, nEv>>

\* The host calls model.fetchData() itself: the promise's value is the
\* reference this.todos holds at the call.
HostFetch ==
  /\ Idle
  /\ Cardinality(HostIdx("fetch")) < MaxModelFetch
  /\ log' = Append(log, Entry("fetch", -1, "", Data(fetchData(ModelState)),
                              fetchData(ModelState)))
  /\ UNCHANGED <<lastId, todos, heap, eventHandlers, itemHandlers, constructed,
                 ctrlRender, pending, nodes, pc, nEv>>

\* The data the host calls view.render with.
HostRenderInputs == {<< >>, <<ToDoItem(0, "a")>>}

\* The host calls view.render itself.
HostRender ==
  /\ Idle
  /\ Cardinality(HostIdx("render")) < MaxHostRender
  /\ \E data \in HostRenderInputs :
       /\ nodes' = Append(nodes, ListRender(data, eventHandlers, itemHandlers))
       /\ log' = log \o <<Entry("render", -1, "host", data, Len(nodes) + 1),
                          Entry("onEvent", -1, "item.remove", "render", "delegateRemove")>>
  /\ itemHandlers' = ListRenderWiring(itemHandlers)
  /\ UNCHANGED <<lastId, todos, heap, eventHandlers, constructed, ctrlRender,
                 pending, pc, nEv>>

\* The application as main() wires it, and its user.
Next ==
  \/ Construct
  \/ OnUpdate
  \/ Run(MaxRuns)
  \/ DoHandle
  \/ DoFetch
  \/ DoRender
  \/ DoPush
  \/ Resolve
  \/ Reject
  \/ SubmitAdd(MaxEvents)
  \/ ClickRemove(MaxEvents)

Spec == Init /\ [][Next]_vars

\* The model, the view and the controller driven by a host that also calls
\* handle, onEvent and render itself; every push goes to the default sink.
NextHost ==
  \/ HostHandle(MaxHostHandle, HostHandleInputs)
  \/ HostOnEvent
  \/ HostRender
  \/ Construct
  \/ DoHandle
  \/ DoFetch
  \/ DoRender
  \/ DoPush
  \/ Resolve
  \/ SubmitAdd(MaxHostEvents)
  \/ ClickRemove(MaxHostEvents)

SpecHost == Init /\ [][NextHost]_vars

\* A ToDoListModel used on its own: handle and fetchData calls in any order.
NextModel ==
  \/ HostHandle(MaxModelOps, ModelHandleInputs)
  \/ HostFetch

SpecModel == Init /\ [][NextModel]_vars

\* The application with run() called more than once.
NextRuns ==
  \/ Construct
  \/ OnUpdate
  \/ Run(MaxRunCalls)
  \/ DoHandle
  \/ DoFetch
  \/ DoRender
  \/ DoPush
  \/ Resolve
  \/ SubmitAdd(MaxWideEvents)
  \/ ClickRemove(MaxWideEvents)

SpecRuns == Init /\ [][NextRuns]_vars

\* The application with a fetch or a render that may fail.
NextFaults ==
  \/ Construct
  \/ OnUpdate
  \/ Run(MaxRunCalls)
  \/ DoHandle
  \/ DoFetch
  \/ DoRender
  \/ RenderFails
  \/ DoPush
  \/ Resolve
  \/ Reject
  \/ SubmitAdd(MaxWideEvents)
  \/ ClickRemove(MaxWideEvents)

SpecFaults == Init /\ [][NextFaults]_vars

\* The todo application: the controller with a ToDoListModel, whose fetches
\* are delivered in the order they were called.
NextApp ==
  \/ Construct
  \/ Run(MaxRunCalls)
  \/ DoHandle
  \/ DoFetch
  \/ DoRender
  \/ DoPush
  \/ ResolveInOrder
  \/ SubmitAdd(MaxAppEvents)
  \/ ClickRemove(MaxAppEvents)

SpecApp == Init /\ [][NextApp]_vars

\* ------------------------------------------------------------ properties
Max(S) == CHOOSE x \in S : \A y \in S : y <= x

\* The callback most recently registered under key before log position i,
\* the empty function when there is none.
Regs(key, i) == {j \in Idx("onEvent") : j < i /\ log[j].key = key}
LatestReg(key, i) ==
  IF Regs(key, i) = {} THEN emptyFunction ELSE log[Max(Regs(key, i))].val

\* C1: every handle(k, params) with k a key of the handler table the model
\* was constructed with invokes the handler stored under k, once, with
\* exactly params, does not throw, and returns what that handler returned.
C1_HandleInvokesHandler ==
  \A i \in Idx("handle") :
    log[i].key \in DOMAIN handlers =>
      /\ ~log[i].val.threw
      /\ Len(log[i].val.calls) = 1
      /\ log[i].val.calls[1].fn = handlers[log[i].key]
      /\ log[i].val.calls[1].params = log[i].arg
      /\ log[i].val.result = log[i].val.calls[1].returned

\* handle has been called for clear by the host and for add and remove by the
\* controller's callbacks.
C1_Witness ==
  /\ \E i \in Idx("handle") : log[i].key = "clear"
  /\ \E i \in Idx("handle") : log[i].key = "add" /\ log[i].ev > 0 /\ log[i].arg = <<"b">>
  /\ \E i \in Idx("handle") : log[i].key = "remove" /\ log[i].ev > 0

\* C2: handle with an event name that is no key of the handler table throws,
\* whatever the name.
C2_UnknownEventThrows ==
  \A i \in Idx("handle") :
    log[i].key \notin DOMAIN handlers => log[i].val.threw

\* C3: the callback an interaction runs is the one most recently registered
\* for its event name on the view whose listener fired, at that moment.
C3_LatestCallbackRuns ==
  \A i \in Idx("dispatch") : log[i].val = LatestReg(log[i].key, i)

\* An interaction ran a callback that was registered, over an earlier one,
\* after every node rendered so far was built.
C3_Witness ==
  \E i \in Idx("dispatch") :
    \E j \in Regs(log[i].key, i) :
      /\ log[i].val = log[j].val
      /\ \E j0 \in Regs(log[i].key, j) : log[j0].val # log[j].val
      /\ \E r \in Idx("render") : r < j
      /\ \A r \in Idx("render") : r < i => r < j

\* C4: an interaction whose event name has no callback registered on the list
\* view throws nothing and changes nothing: only the lookups are recorded.
UnregisteredFired ==
  /\ nEv' = nEv + 1
  /\ log'[Len(log')].key \in {"list.add", "list.remove"}
  /\ Regs(log'[Len(log')].key, Len(log) + 1) = {}

C4_UnregisteredIsNoop ==
  [][UnregisteredFired =>
       /\ \A i \in (Len(log) + 1)..Len(log') : log'[i].op = "dispatch"
       /\ log'[Len(log')].val = emptyFunction
       /\ SubSeq(log', 1, Len(log)) = log
       /\ pc' = IdlePc
       /\ UNCHANGED <<lastId, todos, heap, eventHandlers, itemHandlers, constructed,
                      ctrlRender, pending, nodes>>]_vars

\* Both a submit and a Remove click have fired with nothing registered for
\* them on the list view.
C4_Witness ==
  /\ \E i \in Idx("dispatch") :
       log[i].key = "list.add" /\ Regs("list.add", i) = {}
  /\ \E i \in Idx("dispatch") :
       log[i].key = "list.remove" /\ Regs("list.remove", i) = {}

\* Log positions of the entries of kind op that belong to interaction e.
Of(op, e) == {i \in Idx(op) : log[i].ev = e}

\* The sink registered at log position i: that of the last onUpdate before
\* it, the default no-op sink 0 when there is none.
SinkAt(i) ==
  LET U == {j \in Idx("onUpdate") : j < i}
  IN IF U = {} THEN 0 ELSE log[Max(U)].val

\* C5: onUpdate only stores the callback.  Every call of a sink is the push
\* statement that follows a view.render call in the same callback, with the
\* node that call returned, so onUpdate itself calls no sink; and a node that
\* reaches a registered sink was rendered after that sink was registered.
C5_OnUpdateNeverReplays ==
  \A k \in Idx("push") :
    /\ k > 2
    /\ log[k - 2].op = "render"
    /\ log[k - 2].val = log[k].val
    /\ log[k].arg > 0 =>
         \E j \in Idx("onUpdate") : log[j].val = log[k].arg /\ j < k - 2

\* A sink was registered after a node had been pushed, and later received a
\* node of its own.
C5_Witness ==
  \E j \in Idx("onUpdate") :
    /\ \E k0 \in Idx("push") : k0 < j
    /\ \E k \in Idx("push") : j < k /\ log[k].arg = log[j].val

\* C6: every pushed node goes to one sink, the one registered last when the
\* push happens (the default no-op sink when onUpdate was never called), and
\* no node is pushed twice.
C6_PushGoesToCurrentSink ==
  /\ \A k \in Idx("push") : log[k].arg = SinkAt(k)
  /\ \A k1, k2 \in Idx("push") : log[k1].val = log[k2].val => k1 = k2

\* A re-render reached a sink registered after its fetch was started, and a
\* node was pushed to the default sink.
C6_Witness ==
  /\ \E k \in Idx("push") :
       \E f \in Of("fetch", log[k].ev) : SinkAt(f) # log[k].arg /\ log[k].arg > 0
  /\ \E k \in Idx("push") : log[k].arg = 0

\* The then-callback of interaction e has run to its end.
Settled(e) == Of("resolve", e) # {} /\ (Idle \/ pc.ev # e)

\* C7: an add or remove event makes at most one view.render call and one
\* push, none before its fetch has resolved, and exactly one of each once the
\* then-callback of its resolved fetch has run.
C7_OneRenderPerEvent ==
  \A e \in 1..nEv :
    /\ Cardinality(Of("render", e)) <= 1
    /\ Cardinality(Of("push", e)) <= 1
    /\ Of("resolve", e) = {} => Of("render", e) = {} /\ Of("push", e) = {}
    /\ Settled(e) => Cardinality(Of("render", e)) = 1 /\ Cardinality(Of("push", e)) = 1

\* An add and a remove have both been re-rendered and pushed, and a third
\* event's fetch was rejected.
C7_Witness ==
  /\ \E e \in 1..nEv : Settled(e) /\ \E i \in Of("handle", e) : log[i].key = "add"
  /\ \E e \in 1..nEv : Settled(e) /\ \E i \in Of("handle", e) : log[i].key = "remove"
  /\ \E e \in 1..nEv : Of("reject", e) # {}

\* The handler applications of other interactions that lie between the handler
\* of interaction e at log position i and the push of e at position j.
Between(i, j) ==
  {k \in Idx("handle") : i < k /\ k < j /\ log[k].ev # log[i].ev}

\* C8 as claimed: between the handler of an event and the push of its
\* re-render no handler of another event is applied.
C8_NoHandlerBetween ==
  \A i \in Idx("handle") :
    \A j \in Of("push", log[i].ev) :
      (log[i].ev > 0 /\ i < j) => Between(i, j) = {}

\* C8 as amended: a handler of another event is applied in between only while
\* the event's fetch is pending: after the fetchData call that follows the
\* event's handler and before its then-callback starts.
C8_HandlerOnlyWhileFetchPending ==
  \A i \in Idx("handle") :
    \A j \in Of("push", log[i].ev) :
      (log[i].ev > 0 /\ i < j) =>
        \A k \in Between(i, j) :
          \E f \in Of("fetch", log[i].ev), r \in Of("resolve", log[i].ev) :
            i < f /\ f < k /\ k < r /\ r < j

\* The handler of a second event was applied between the handler of a first
\* event and the push of its re-render.
C8_Witness ==
  \E i \in Idx("handle") :
    \E j \in Of("push", log[i].ev) :
      log[i].ev > 0 /\ i < j /\ Between(i, j) # {}

\* The dispatches that called a callback of the controller.
CtrlDispatches ==
  {d \in Idx("dispatch") : log[d].val \in {"handleAdd", "handleRemove"}}

\* C9: the handler of an event is applied once, inside the callback its
\* dispatch called, before any later event is dispatched: the mutations are
\* applied in dispatch order.
C9_MutationsInDispatchOrder ==
  \A d \in CtrlDispatches :
    LET H == Of("handle", log[d].ev)
    IN /\ Cardinality(H) <= 1
       /\ H = {} => ~Idle /\ pc.ev = log[d].ev
       /\ \A i \in H :
            /\ d < i
            /\ \A d2 \in Idx("dispatch") : log[d2].ev > log[d].ev => i < d2

\* Two events' handlers were applied while the fetch of the first was still
\* pending, and the second fetch resolved first.
C9_Witness ==
  \E i1, i2 \in Idx("handle") :
    /\ 0 < log[i1].ev /\ log[i1].ev < log[i2].ev
    /\ \E r2 \in Of("resolve", log[i2].ev) :
         \A r1 \in Of("resolve", log[i1].ev) : r2 < r1

\* C10: each fetch that resolves is pushed in the then-callback that starts
\* then, before any other fetch resolves: the pushes are in the order of the
\* resolutions, and none is held back or dropped.
C10_PushesInResolveOrder ==
  \A r \in Idx("resolve") :
    LET P == {k \in Of("push", log[r].ev) : r < k}
    IN /\ P = {} => ~Idle /\ pc.ev = log[r].ev
       /\ \A r2 \in Idx("resolve") : r < r2 => \E k \in P : k < r2
       /\ \A k \in P :
            \A k2 \in Idx("push") :
              (k < k2 /\ log[k2].ev > 0) =>
                \A r2 \in Of("resolve", log[k2].ev) : r < r2

\* Two re-renders were pushed in the opposite order to their dispatches.
C10_Witness ==
  \E k1, k2 \in Idx("push") :
    /\ k1 < k2 /\ log[k1].ev > log[k2].ev /\ log[k2].ev > 0
    /\ \E r1 \in Of("resolve", log[k1].ev), r2 \in Of("resolve", log[k2].ev) : r1 < r2

\* ------------------------------------------------- the model on its own
\* The reference list after the first n entries of the history: add appends
\* <<number of adds so far, name>>, remove(id) deletes the entries with that
\* id, clear empties the list; every other entry leaves it alone.
RefAfter(n) ==
  LET R[i \in 0..n] ==
        IF i = 0 THEN [adds |-> 0, list |-> << >>]
        ELSE LET e == log[i]
                 p == R[i - 1]
             IN IF e.op # "handle" \/ e.val.threw THEN p
                ELSE IF e.key = "add"
                THEN [adds |-> p.adds + 1,
                      list |-> Append(p.list, <<p.adds, e.arg[1]>>)]
                ELSE IF e.key = "remove"
                THEN [p EXCEPT !.list = SelectSeq(@, LAMBDA x : x[1] # e.arg[1])]
                ELSE IF e.key = "clear"
                THEN [p EXCEPT !.list = << >>]
                ELSE p
  IN R[n]

\* The ids and names of a list of items, in order.
Items(s) == [i \in 1..Len(s) |-> <<s[i].id, s[i].name>>]

\* C11: after any sequence of add, remove and clear events the list a
\* fetchData call resolves to is the reference list for the events handled
\* before the call, and so is the list a call made now would give.
C11_FetchMatchesReference ==
  /\ Items(Data(fetchData(ModelState))) = RefAfter(Len(log)).list
  /\ \A f \in Idx("fetch") : Items(log[f].arg) = RefAfter(f).list

\* A fetch gave only the second item added, after a remove, and another gave
\* the empty list after an add and a clear.
C11_Witness ==
  /\ \E f \in Idx("fetch") :
       /\ log[f].arg = <<ToDoItem(1, "b")>>
       /\ \E h \in Idx("handle") : h < f /\ log[h].key = "remove"
  /\ \E f \in Idx("fetch") :
       /\ log[f].arg = << >>
       /\ \E h1, h2 \in Idx("handle") :
            h1 < h2 /\ h2 < f /\ log[h1].key = "add" /\ log[h2].key = "clear"

\* A step that changes a private field of the model.
ModelChanged == lastId' # lastId \/ todos' # todos \/ heap' # heap

\* C12: the model's fields change only in a step that is a handle call, made
\* by the host or by a view callback before its fetch: never in a fetchData
\* call or its resolution, a render, an onEvent, an onUpdate or a run.
C12_ModelChangesOnlyInHandle ==
  [][ModelChanged =>
       /\ Len(log') = Len(log) + 1
       /\ log'[Len(log')].op = "handle"
       /\ log'[Len(log')].ev # 0
       /\ Of("fetch", log'[Len(log')].ev) = {}]_vars

\* With an item in the list: run() was called again, a sink was registered,
\* a fetch has resolved and been rendered and another is still pending.
C12_Witness ==
  \E h \in Idx("handle") :
    /\ log[h].key = "add"
    /\ Data(todos) # << >>
    /\ \E i \in Idx("run") : h < i
    /\ \E i \in Idx("onUpdate") : h < i
    /\ \E i \in Idx("render") : h < i /\ log[i].ev > 0
    /\ \E i \in Idx("onEvent") : h < i
    /\ pending # {}

\* C13: a handle call calls nothing but the handler (so no view.render and no
\* sink), and every render and push of an interaction is made by the
\* controller's then-callback, after the handle call has returned and the
\* fetch that follows it has resolved.
C13_HandleNeverRenders ==
  /\ \A h \in Idx("handle") :
       \A c \in DOMAIN log[h].val.calls :
         log[h].val.calls[c].fn \in {handlers[k] : k \in DOMAIN handlers}
  /\ \A k \in Idx("render") \cup Idx("push") :
       \A h \in Of("handle", log[k].ev) :
         log[k].ev > 0 =>
           \E f \in Of("fetch", log[k].ev), r \in Of("resolve", log[k].ev) :
             h < f /\ f < r /\ r < k

\* An add and a remove have been handled and their re-renders pushed.
C13_Witness ==
  /\ \E h \in Idx("handle") :
       log[h].key = "add" /\ \E k \in Of("push", log[h].ev) : h < k
  /\ \E h \in Idx("handle") :
       log[h].key = "remove" /\ \E k \in Of("push", log[h].ev) : h < k

\* C14: every run() call renders the view with the empty list and pushes that
\* one node to the sink registered then, before it returns, and calls neither
\* handle nor fetchData, whatever the model holds.
C14_RunRendersEmpty ==
  /\ \A i \in Idx("run") :
       /\ i + 1 <= Len(log) =>
            /\ log[i + 1].op = "render"
            /\ log[i + 1].arg = << >>
            /\ nodes[log[i + 1].val].list = << >>
       /\ i + 3 <= Len(log) =>
            /\ log[i + 3].op = "push"
            /\ log[i + 3].val = log[i + 1].val
            /\ log[i + 3].arg = SinkAt(i + 3)
       /\ Idle => i + 3 <= Len(log)
  /\ Cardinality({k \in Idx("push") : log[k].key = "run"}) <= Cardinality(Idx("run"))
  /\ Of("handle", 0) = {}
  /\ Of("fetch", 0) = {}

\* run() was called a second time, with an item in the model and a sink
\* registered, and pushed its node.
C14_Witness ==
  \E i, j \in Idx("run") :
    /\ j < i
    /\ RefAfter(i).list # << >>
    /\ i + 3 <= Len(log)
    /\ log[i + 3].arg > 0

\* C15: when the fetch of an interaction is rejected, nothing catches it: the
\* rejection is left unhandled, the fetch is not made again, the interaction
\* gets no render and no push, and the model keeps the mutation its handle
\* call applied.
C15_FailedFetchPropagates ==
  \A j \in Idx("reject") :
    /\ log[j].val = "unhandledrejection"
    /\ Cardinality(Of("fetch", log[j].ev)) = 1
    /\ Cardinality(Of("reject", log[j].ev)) = 1
    /\ Of("resolve", log[j].ev) = {}
    /\ Of("render", log[j].ev) = {}
    /\ Of("push", log[j].ev) = {}
    /\ Cardinality(Of("handle", log[j].ev)) = 1
    /\ Items(Data(todos)) = RefAfter(Len(log)).list

\* The fetch that followed an add was rejected, the item is still in the
\* model, and a later interaction has been re-rendered and pushed.
C15_Witness ==
  \E j \in Idx("reject") :
    /\ \E h \in Of("handle", log[j].ev) :
         /\ log[h].key = "add"
         /\ \E x \in DOMAIN Data(todos) : Data(todos)[x].id = RefAfter(h - 1).adds
    /\ \E k \in Idx("push") : j < k /\ log[k].ev > log[j].ev

\* The view.render calls that have thrown.
RenderThrows == {i \in Idx("throw") : log[i].val = "RenderError"}

\* C16: when view.render throws, the callback it was called from ends there
\* with the fault (run() itself, or the then-callback of a re-render): the
\* sink is not called for that render, the interaction gets no push, and the
\* model, the sink and the pending fetches are as before.
C16_RenderFaultPropagates ==
  [][/\ (Len(log') = Len(log) + 1 /\ Len(log') \in RenderThrows') =>
          /\ ~Idle
          /\ pc' = IdlePc
          /\ UNCHANGED <<lastId, todos, heap, ctrlRender, pending, nodes>>
     /\ \A i \in RenderThrows' :
          /\ i < Len(log') => log'[i + 1].op # "push"
          /\ log'[i].ev > 0 =>
               ~\E k \in DOMAIN log' : log'[k].op = "push" /\ log'[k].ev = log'[i].ev]_vars

\* view.render has thrown inside run() and inside the re-render of an add,
\* whose item the model still holds.
C16_Witness ==
  /\ \E i \in RenderThrows : log[i].key = "run"
  /\ \E i \in RenderThrows :
       /\ log[i].ev > 0
       /\ \E h \in Of("handle", log[i].ev) :
            /\ log[h].key = "add"
            /\ \E x \in DOMAIN Data(todos) : Data(todos)[x].id = RefAfter(h - 1).adds

\* C17: two view.render calls with equal data return equal nodes, whatever was
\* registered on the views at either call and whatever happened in between.
C17_RenderDependsOnDataOnly ==
  \A r1, r2 \in Idx("render") :
    log[r1].arg = log[r2].arg => nodes[log[r1].val] = nodes[log[r2].val]

\* The same one-item list was rendered twice, with a callback for 'add'
\* registered on the list view in between.
C17_Witness ==
  \E r1, r2 \in Idx("render") :
    /\ r1 < r2
    /\ log[r1].arg = log[r2].arg
    /\ log[r1].arg # << >>
    /\ \E j \in Idx("onEvent") : r1 < j /\ j < r2 /\ log[j].key = "list.add"

\* A step in which a view.render call returns.
RenderReturned ==
  \E k \in (Len(log) + 1)..Len(log') : log'[k].op = "render"

\* C18: a view.render call leaves the callback table of every view, the list
\* view's and the child item view's, as it was.
C18_RenderLeavesTables ==
  [][RenderReturned => UNCHANGED <<eventHandlers, itemHandlers>>]_vars

\* The onEvent calls made for key in the step, as positions of the history.
NewRegs(key) ==
  {k \in (Len(log) + 1)..Len(log') : log'[k].op = "onEvent" /\ log'[k].key = key}

\* What a table holds for an event name after the step, given what it held
\* before and the onEvent calls the step made for it.
AfterRegs(table, event, key) ==
  IF NewRegs(key) = {} THEN GetProp(table, event) ELSE log'[Max(NewRegs(key))].val

\* C19: a step that calls onEvent does not throw and calls no callback; after
\* it each view's table holds, for the event names registered, the callback
\* given last, and for every other name what it held before.
C19_OnEventSetsOnlyItsEvent ==
  [][(\E k \in (Len(log) + 1)..Len(log') : log'[k].op = "onEvent") =>
       /\ \A e \in {"add", "remove", "clear"} :
            /\ GetProp(eventHandlers', e) = AfterRegs(eventHandlers, e, "list." \o e)
            /\ GetProp(itemHandlers', e) = AfterRegs(itemHandlers, e, "item." \o e)
       /\ \A k \in (Len(log) + 1)..Len(log') : log'[k].op \in {"onEvent", "render"}
       /\ pc' = pc \/ (~Idle /\ pc' = Advance([pc EXCEPT !.node = Len(nodes')]))
       /\ UNCHANGED <<lastId, todos, heap, ctrlRender, pending, nEv>>]_vars

\* The host registered a callback for an event the constructor had registered
\* a handler for, after a node was rendered; the other event keeps its handler.
C19_Witness ==
  /\ \E j \in HostRegs :
       /\ \E r \in Idx("render") : r < j
       /\ \E j0 \in Regs(log[j].key, j) : log[j0].val # log[j].val
       /\ \E e \in {"add", "remove"} :
            log[j].key = "list." \o e /\ GetProp(eventHandlers, e) = log[j].val
  /\ \E e \in {"add", "remove"} :
       GetProp(eventHandlers, e) \in {"handleAdd", "handleRemove"}

\* The place of each step in the sequence of an interaction.
Rank == [dispatch |-> 0, handle |-> 1, fetch |-> 2, resolve |-> 3,
         render |-> 4, push |-> 5]

\* The steps of interaction e, as positions of the history.
StepsOf(e) == {i \in DOMAIN log : log[i].ev = e /\ log[i].op \in DOMAIN Rank}

\* C20: the steps of an interaction come in the order dispatch, handle,
\* fetchData, resolution, render, push: the handler runs inside the view
\* callback, fetchData is called right after it, the render is given what
\* the resolved fetch delivered, and the push is given the rendered node.
C20_StepsInOrder ==
  \A e \in 1..nEv :
    /\ \A i, j \in StepsOf(e) :
         i < j => \/ Rank[log[i].op] < Rank[log[j].op]
                  \/ (log[i].op = "dispatch" /\ log[j].op = "dispatch")
    /\ \A h \in Of("handle", e) : log[h - 1].op = "dispatch" /\ log[h - 1].ev = e
    /\ \A f \in Of("fetch", e) : log[f - 1].op = "handle" /\ log[f - 1].ev = e
    /\ \A n \in Of("render", e) :
         /\ log[n - 1].op = "resolve" /\ log[n - 1].ev = e
         /\ log[n].arg = log[n - 1].arg
         /\ \E f \in Of("fetch", e) : f < n /\ log[f].val = log[n - 1].val
    /\ \A k \in Of("push", e) :
         \E n \in Of("render", e) : n < k /\ log[k].val = log[n].val

\* A remove went through all its steps and its re-render, of a list that
\* still holds an item, was pushed.
C20_Witness ==
  \E k \in Idx("push") :
    /\ \E h \in Of("handle", log[k].ev) : log[h].key = "remove"
    /\ \E n \in Of("render", log[k].ev) : log[n].arg # << >>

\* C21: what a fetch delivers to the then-callback, and so to view.render, is
\* the list as it was when fetchData was called, whatever handle calls were
\* made in between.
C21_FetchIsSnapshot ==
  \A r \in Idx("resolve") :
    \A f \in Of("fetch", log[r].ev) :
      (f < r /\ log[f].val = log[r].val) => log[r].arg = log[f].arg

\* Nothing is running and no fetch is pending.
Quiescent == Idle /\ pending = {}

\* An interaction has called a handler of the controller since the last run().
InteractedSinceRun ==
  \E d \in CtrlDispatches : \A i \in Idx("run") : i < d

\* The render calls that returned the node pushed last.
LastPushedRenders ==
  {n \in Idx("render") : log[n].val = log[Max(Idx("push"))].val}

\* C22: in the todo application, when nothing is running or pending and an
\* add or remove happened since the last run(), the node pushed last was
\* rendered from the list the model holds now.
C22_LastPushShowsModel ==
  (Quiescent /\ InteractedSinceRun) =>
    /\ Idx("push") # {}
    /\ LastPushedRenders # {}
    /\ \A n \in LastPushedRenders : log[n].arg = Data(todos)

\* Quiescent after run() was called twice and three interactions, one a
\* remove, two of them with their fetches pending at the same time, the
\* model still holding an item.
C22_Witness ==
  /\ Quiescent
  /\ InteractedSinceRun
  /\ Cardinality(Idx("run")) = 2
  /\ Data(todos) # << >>
  /\ \E h \in Idx("handle") : log[h].key = "remove"
  /\ \E f1, f2 \in Idx("fetch") :
       f1 < f2 /\ \A r \in Of("resolve", log[f1].ev) : f2 < r

\* The clicks on a Remove button, as positions of the history.
RemoveClicks == {d \in Idx("dispatch") : log[d].key = "item.remove"}

\* C23: every item node of a rendered list carries the id of the item it was
\* rendered from; a click on its Remove button goes through the callback the
\* list render installed on the item view to the callback registered for
\* 'remove' on the list view at that moment, with that id; and when that is
\* the controller's handler, the click makes one handle('remove', id) call.
C23_RemoveClickDelivered ==
  /\ \A r \in Idx("render") :
       /\ Len(nodes[log[r].val].list) = Len(log[r].arg)
       /\ \A i \in DOMAIN log[r].arg :
            /\ nodes[log[r].val].list[i].removeId = log[r].arg[i].id
            /\ nodes[log[r].val].list[i].title = log[r].arg[i].name
  /\ \A d \in RemoveClicks :
       /\ log[d].val = "delegateRemove"
       /\ \E r \in Idx("render") :
            r < d /\ \E i \in DOMAIN log[r].arg : log[r].arg[i].id = log[d].arg
       /\ d < Len(log)
       /\ log[d + 1].op = "dispatch"
       /\ log[d + 1].key = "list.remove"
       /\ log[d + 1].ev = log[d].ev
       /\ log[d + 1].arg = log[d].arg
       /\ log[d + 1].val = LatestReg("list.remove", d + 1)
       /\ log[d + 1].val = "handleRemove" =>
            /\ Cardinality(Of("handle", log[d].ev)) <= 1
            /\ \A h \in Of("handle", log[d].ev) :
                 log[h].key = "remove" /\ log[h].arg = <<log[d].arg>>
            /\ Of("handle", log[d].ev) = {} => ~Idle /\ pc.ev = log[d].ev

\* One click was delivered to a callback the host registered and another to
\* the controller's handler, which made its handle call.
C23_Witness ==
  /\ \E d \in RemoveClicks :
       log[d + 1].val \notin {"handleRemove", emptyFunction}
  /\ \E d \in RemoveClicks :
       log[d + 1].val = "handleRemove" /\ Of("handle", log[d].ev) # {}

\* The ids of the list are strictly increasing and all below the counter.
IdsOrdered ==
  /\ \A i \in DOMAIN Data(todos) : Data(todos)[i].id < lastId
  /\ \A i, j \in DOMAIN Data(todos) :
       i < j => Data(todos)[i].id < Data(todos)[j].id

\* C24: the ids of the list stay distinct, increasing and below the counter;
\* the counter never decreases, remove and clear leave it alone, and an item
\* that joins the list gets the counter's value, which is then passed, so no
\* id is given out twice.
C24_IdsNeverReused ==
  [][/\ lastId' >= lastId
     /\ IdsOrdered'
     /\ Len(Data(todos)') > Len(Data(todos)) =>
          /\ Data(todos)'[Len(Data(todos)')].id = lastId
          /\ lastId' = lastId + 1
     /\ Len(Data(todos)') <= Len(Data(todos)) => lastId' = lastId]_vars

\* After two adds and a clear, the list holds a single item added later,
\* whose id is 2.
C24_Witness ==
  /\ \E h \in Idx("handle") : log[h].key = "clear"
  /\ Len(Data(todos)) = 1
  /\ Data(todos)[1].id = 2
  /\ lastId = 3

\* The handle('remove', id) calls for an id no item of the list had, as
\* positions of the history.
MissedRemoves ==
  {h \in Idx("handle") :
     /\ log[h].key = "remove"
     /\ \A i \in DOMAIN RefAfter(h - 1).list : RefAfter(h - 1).list[i][1] # log[h].arg[1]}

\* The step is a handle('remove', id) call for an id no item of the list has.
RemoveMisses ==
  /\ Len(log') = Len(log) + 1
  /\ log'[Len(log')].op = "handle"
  /\ log'[Len(log')].key = "remove"
  /\ \A i \in DOMAIN Data(todos) : Data(todos)[i].id # log'[Len(log')].arg[1]

\* C25: removing an id no item has does not throw and leaves the list and
\* the counter as they were; the controller goes on to fetch once, and once
\* the fetch is delivered renders and pushes once.
C25_RemoveOfMissingId ==
  /\ [][RemoveMisses =>
          /\ ~log'[Len(log')].val.threw
          /\ Data(todos)' = Data(todos)
          /\ lastId' = lastId]_vars
  /\ [](\A h \in MissedRemoves :
          /\ ~log[h].val.threw
          /\ RefAfter(h).list = RefAfter(h - 1).list
          /\ (Idle \/ pc.ev # log[h].ev) => Cardinality(Of("fetch", log[h].ev)) = 1
          /\ Settled(log[h].ev) =>
               /\ Cardinality(Of("render", log[h].ev)) = 1
               /\ Cardinality(Of("push", log[h].ev)) = 1)

\* A second click on a replaced node removed an id already removed, with
\* another item still in the list, and its re-render was pushed.
C25_Witness ==
  \E h \in MissedRemoves :
    /\ \E h0 \in Idx("handle") :
         h0 < h /\ log[h0].key = "remove" /\ log[h0].arg = log[h].arg
    /\ RefAfter(h - 1).list # << >>
    /\ Settled(log[h].ev)
    /\ Of("push", log[h].ev) # {}

\* C26: once the controller is constructed the list view's 'add' and 'remove'
\* callbacks are the controller's handlers, at every run() and onUpdate call
\* and in every later state, through renders, fetches and model operations.
C26_WiringStays ==
  /\ constructed =>
       /\ GetProp(eventHandlers, "add") = "handleAdd"
       /\ GetProp(eventHandlers, "remove") = "handleRemove"
  /\ \A i \in Idx("run") \cup Idx("onUpdate") :
       /\ LatestReg("list.add", i) = "handleAdd"
       /\ LatestReg("list.remove", i) = "handleRemove"

\* After run(), two onUpdate calls, an add and a remove that were re-rendered
\* and a fetch that failed.
C26_Witness ==
  /\ Idx("run") # {}
  /\ Cardinality(Idx("onUpdate")) = 2
  /\ \E h \in Idx("handle") : log[h].key = "add" /\ Of("push", log[h].ev) # {}
  /\ \E h \in Idx("handle") : log[h].key = "remove" /\ Of("push", log[h].ev) # {}
  /\ Idx("reject") # {}
  /\ Quiescent

====
